---- MODULE Spec2Model ----
\* Model of ftp_tree_viewer.py: the tree lister ftp_tree, the recursive
\* downloader download_files, one FTP connection with a current remote
\* directory, and the local filesystem the downloader writes to.
\* Box-drawing glyphs are written in ASCII: "+-- " for the corner glyph,
\* "|-- " for the tee glyph and "|   " for the vertical-bar indent.
EXTENDS Integers, Sequences, FiniteSets, TLC

----------------------------------------------------------------------------
\* Bounds

\* number of server replies that fail although the request is valid
MaxFaults == 1
\* sys.getrecursionlimit() of a default CPython interpreter
PyRecursionLimit == 1000
\* Python frames below the first download_files call: <module>, main
OuterFrames == 2
\* deepest chain of frames (ftplib, socket, os, fnmatch, and the C-level
\* recursion checks of comparisons and calls) a download_files frame opens
InnerDepthMax == 20
\* nested download_files calls the model explores (deeper calls are not
\* taken; the code itself recurses on until the interpreter's limit)
MaxDepth == 6

----------------------------------------------------------------------------
\* Strings (Python str operations)

Char(s, i) == SubSeq(s, i, i)
Rest(s) == SubSeq(s, 2, Len(s))
StartsWith(s, p) == Len(s) >= Len(p) /\ SubSeq(s, 1, Len(p)) = p
EndsWith(s, p) == Len(s) >= Len(p) /\ SubSeq(s, Len(s) - Len(p) + 1, Len(s)) = p
Contains(s, c) == \E i \in 1..Len(s) : Char(s, i) = c
LastIdx(s, c) == IF Contains(s, c)
                 THEN CHOOSE i \in 1..Len(s) : Char(s, i) = c /\ \A j \in i+1..Len(s) : Char(s, j) /= c
                 ELSE 0
FirstIdx(s, c) == IF Contains(s, c)
                  THEN CHOOSE i \in 1..Len(s) : Char(s, i) = c /\ \A j \in 1..i-1 : Char(s, j) /= c
                  ELSE 0

\* s.split('/')
RECURSIVE SplitSlash(_)
SplitSlash(s) == IF ~Contains(s, "/") THEN <<s>>
                 ELSE <<SubSeq(s, 1, FirstIdx(s, "/") - 1)>>
                      \o SplitSlash(SubSeq(s, FirstIdx(s, "/") + 1, Len(s)))

\* code-point order of the characters the listings use
Alphabet == " !#$%&()*+,-./0123456789:;<=>?@ABCDEFGHIJKLMNOPQRSTUVWXYZ[]^_abcdefghijklmnopqrstuvwxyz{|}~"
Ord(c) == CHOOSE i \in 1..Len(Alphabet) : Char(Alphabet, i) = c

\* Python's a < b on str
RECURSIVE StrLess(_, _)
StrLess(a, b) == IF a = "" THEN b /= ""
                 ELSE IF b = "" THEN FALSE
                 ELSE IF Char(a, 1) = Char(b, 1) THEN StrLess(Rest(a), Rest(b))
                 ELSE Ord(Char(a, 1)) < Ord(Char(b, 1))

RECURSIVE RStripSlash(_)
RStripSlash(s) == IF s /= "" /\ EndsWith(s, "/") THEN RStripSlash(SubSeq(s, 1, Len(s) - 1)) ELSE s

AllSlashes(s) == \A i \in 1..Len(s) : Char(s, i) = "/"

\* posixpath.basename
Basename(p) == SubSeq(p, LastIdx(p, "/") + 1, Len(p))
\* posixpath.dirname
Dirname(p) == LET head == SubSeq(p, 1, LastIdx(p, "/"))
              IN IF head /= "" /\ ~AllSlashes(head) THEN RStripSlash(head) ELSE head
\* posixpath.join(a, b)
Join2(a, b) == IF StartsWith(b, "/") THEN b
               ELSE IF a = "" \/ EndsWith(a, "/") THEN a \o b
               ELSE a \o "/" \o b
Join3(a, b, c) == Join2(Join2(a, b), c)

\* a bracket class body of fnmatch contains character c
RECURSIVE InClass(_, _)
InClass(body, c) ==
  IF body = "" THEN FALSE
  ELSE IF Len(body) >= 3 /\ Char(body, 2) = "-"
       THEN (Ord(Char(body, 1)) <= Ord(c) /\ Ord(c) <= Ord(Char(body, 3))) \/ InClass(SubSeq(body, 4, Len(body)), c)
  ELSE Char(body, 1) = c \/ InClass(Rest(body), c)
\* index of the "]" closing the class that starts p ("["), 0 if none (fnmatch.translate)
ClassEnd(p) ==
  LET j1 == IF Len(p) >= 2 /\ Char(p, 2) = "!" THEN 3 ELSE 2
      j2 == IF Len(p) >= j1 /\ Char(p, j1) = "]" THEN j1 + 1 ELSE j1
  IN IF \E j \in j2..Len(p) : Char(p, j) = "]"
     THEN CHOOSE j \in j2..Len(p) : Char(p, j) = "]" /\ \A k \in j2..j-1 : Char(p, k) /= "]"
     ELSE 0

\* fnmatch.fnmatch on POSIX (case-sensitive): *, ?, [...] and [!...]
RECURSIVE GlobMatch(_, _)
GlobMatch(p, s) == IF p = "" THEN s = ""
                   ELSE IF Char(p, 1) = "*"
                        THEN GlobMatch(Rest(p), s) \/ (s /= "" /\ GlobMatch(p, Rest(s)))
                   ELSE IF Char(p, 1) = "?" THEN s /= "" /\ GlobMatch(Rest(p), Rest(s))
                   ELSE IF Char(p, 1) = "[" /\ ClassEnd(p) > 0
                        THEN LET body == SubSeq(p, 2, ClassEnd(p) - 1)
                                 neg == StartsWith(body, "!")
                                 set == IF neg THEN Rest(body) ELSE body
                             IN /\ s /= ""
                                /\ InClass(set, Char(s, 1)) = ~neg
                                /\ GlobMatch(SubSeq(p, ClassEnd(p) + 1, Len(p)), Rest(s))
                   ELSE s /= "" /\ Char(s, 1) = Char(p, 1) /\ GlobMatch(Rest(p), Rest(s))

\* sorted(items, key=lambda x: x[-1]) (stable insertion sort)
LastField(x) == x[Len(x)]
RECURSIVE InsertByLast(_, _)
InsertByLast(x, s) == IF s = <<>> THEN <<x>>
                      ELSE IF StrLess(LastField(x), LastField(Head(s))) THEN <<x>> \o s
                      ELSE <<Head(s)>> \o InsertByLast(x, Tail(s))
RECURSIVE SortByLast(_)
SortByLast(s) == IF s = <<>> THEN <<>>
                 ELSE InsertByLast(s[Len(s)], SortByLast(SubSeq(s, 1, Len(s) - 1)))

RECURSIVE JoinComps(_)
JoinComps(c) == IF c = <<>> THEN ""
                ELSE IF Len(c) = 1 THEN Head(c)
                ELSE Head(c) \o "/" \o JoinComps(Tail(c))

----------------------------------------------------------------------------
\* Remote server: directory trees the connection can face

Ent(perms, name) == [perms |-> perms, name |-> name, target |-> ""]
Lnk(name, target) == [perms |-> "lrwxrwxrwx", name |-> name, target |-> target]
DirPerms == "drwxr-xr-x"
FilePerms == "-rw-r--r--"

\* entries of a remote directory in the order the server lists them
Entries(fs, d) ==
  CASE fs \in {"A", "T"} /\ d = <<>> -> <<Ent(DirPerms, "dirA"), Ent(FilePerms, "file.txt")>>
    [] fs \in {"A", "T"} /\ d = <<"dirA">> -> <<Ent(FilePerms, "sub.txt")>>
    [] fs = "B" /\ d = <<>> -> <<Ent(FilePerms, "a.txt"), Ent(DirPerms, "zdir")>>
    [] fs \in {"D", "L"} /\ d = <<>> -> <<Ent(DirPerms, "pub")>>
    [] fs = "D" /\ d = <<"pub">> -> <<Ent(FilePerms, ".hidden"), Ent("drwxrwxrwx", "docs"),
                                      Ent(FilePerms, "readme.txt"), Ent(FilePerms, "report1.txt")>>
    [] fs = "D" /\ d = <<"pub", "docs">> -> <<Ent(FilePerms, "a.txt")>>
    [] fs = "L" /\ d = <<"pub">> -> <<Ent(DirPerms, "sub")>>
    [] fs = "L" /\ d = <<"pub", "sub">> -> <<Lnk("up", "../")>>
    [] OTHER -> <<>>

Kind(e) == Char(e.perms, 1)
HasEntry(fs, d, n) == \E i \in 1..Len(Entries(fs, d)) : Entries(fs, d)[i].name = n
Lookup(fs, d, n) == Entries(fs, d)[CHOOSE i \in 1..Len(Entries(fs, d)) : Entries(fs, d)[i].name = n]
Parent(d) == IF d = <<>> THEN <<>> ELSE SubSeq(d, 1, Len(d) - 1)

\* server-side resolution of a path to a directory (symlinks followed physically)
RECURSIVE Walk(_, _, _)
Walk(fs, cur, comps) ==
  IF comps = <<>> THEN [ok |-> TRUE, path |-> cur]
  ELSE LET c == Head(comps) IN
    IF c = "" \/ c = "." THEN Walk(fs, cur, Tail(comps))
    ELSE IF c = ".." THEN Walk(fs, Parent(cur), Tail(comps))
    ELSE IF ~HasEntry(fs, cur, c) THEN [ok |-> FALSE, path |-> cur]
    ELSE LET e == Lookup(fs, cur, c) IN
      IF Kind(e) = "d" THEN Walk(fs, cur \o <<c>>, Tail(comps))
      ELSE IF Kind(e) = "l"
        THEN LET r == Walk(fs, IF StartsWith(e.target, "/") THEN <<>> ELSE cur, SplitSlash(e.target))
             IN IF r.ok THEN Walk(fs, r.path, Tail(comps)) ELSE r
      ELSE [ok |-> FALSE, path |-> cur]

ResolveDir(fs, cwd, p) == Walk(fs, IF StartsWith(p, "/") THEN <<>> ELSE cwd, SplitSlash(p))

\* RETR <p>: the regular file p names, relative to the current directory
ResolveFile(fs, cwd, p) ==
  LET comps == SplitSlash(p)
      n == comps[Len(comps)]
      d == Walk(fs, IF StartsWith(p, "/") THEN <<>> ELSE cwd, SubSeq(comps, 1, Len(comps) - 1))
  IN IF d.ok /\ HasEntry(fs, d.path, n) /\ Kind(Lookup(fs, d.path, n)) = "-"
     THEN [ok |-> TRUE, path |-> d.path \o <<n>>]
     ELSE [ok |-> FALSE, path |-> d.path]

\* PWD reply
PwdStr(d) == "/" \o JoinComps(d)

\* one line of a Unix LIST reply, as the fields line.split() returns
ListLine(e) == <<e.perms, "1", "ftp", "ftp", "0", "Jan", "1", "00:00", e.name>>
               \o (IF Kind(e) = "l" THEN <<"->", e.target>> ELSE <<>>)
RECURSIVE LinesOf(_)
LinesOf(es) == IF es = <<>> THEN <<>> ELSE <<ListLine(Head(es))>> \o LinesOf(Tail(es))
RECURSIVE NonHidden(_)
NonHidden(es) == IF es = <<>> THEN <<>>
                 ELSE (IF StartsWith(Head(es).name, ".") THEN <<>> ELSE <<Head(es)>>) \o NonHidden(Tail(es))

\* mode of a directory as its parent lists it
DirPermsOf(fs, d) == IF d = <<>> THEN DirPerms ELSE Lookup(fs, Parent(d), d[Len(d)]).perms
\* reply to LIST (all = FALSE) or LIST -a (all = TRUE) in directory d;
\* server "T" starts each reply with a "total" line
Listing(fs, d, all) ==
  LET es == IF all THEN <<Ent(DirPermsOf(fs, d), "."), Ent(DirPermsOf(fs, Parent(d)), "..")>> \o Entries(fs, d)
            ELSE NonHidden(Entries(fs, d))
  IN (IF fs = "T" THEN << <<"total", "2">> >> ELSE <<>>) \o LinesOf(es)

\* content of a remote file
Content(p) == "data:" \o PwdStr(p)

----------------------------------------------------------------------------
\* State

VARIABLES
  fs,          \* which server directory tree the connection faces
  lopt,        \* arguments of the list command
  gpat,        \* argument of the get command (-f)
  cat,         \* cat_file: arguments and position
  cwd,         \* current remote directory of the connection
  tstack,      \* active ftp_tree calls, innermost last
  gstack,      \* active download_files calls, innermost last
  exc,         \* exception propagating (class and message), class "none" if none
  out,         \* printed lines
  faults,      \* failed replies to valid requests so far
  mainPc,      \* "run" while main's command runs, "quit" before ftp.quit(), "done" after
  exited,      \* the download_files call that exited last, and how
  ops,         \* cwd and LIST requests issued by ftp_tree calls
  localDirs,   \* local directories
  localFiles,  \* local files: path -> content
  retrieved    \* remote files whose RETR completed

vars == <<fs, lopt, gpat, cat, cwd, tstack, gstack, exc, out, faults, mainPc,
          exited, ops, localDirs, localFiles, retrieved>>

\* recursion_depth=None
None == [none |-> TRUE, n |-> 0]
IntDepth(k) == [none |-> FALSE, n |-> k]
Corner == "+-- "
Tee == "|-- "
Bar == "|   "
\* host argument "h" (default port, parse_host_port)
Host == "h"
Port == "21"
\* print(f"Connected to FTP at {host}:{port}")
Connected == "Connected to FTP at " \o Host \o ":" \o Port
\* os.getcwd() of the process
LocalCwd == "/home"

ListDirs == {"/", "/pub"}
ListDepths == {None} \cup {IntDepth(k) : k \in -1..3}
ListServers == {"A", "B", "T", "D"}
DefaultListOpts == [dir |-> "/", depth |-> None, perms |-> FALSE, hidden |-> FALSE,
                    ignore |-> FALSE, onlyDirs |-> FALSE, ww |-> FALSE]
GetPatterns == {"*", "/pub/*", "pub/report*.txt"}
GetServers == {"D", "L"}

\* whether calling the n-th nested download_files overflows the interpreter
\* stack before its frame exists: only once that frame is past the limit
RecursionOutcomes(n) == IF n + OuterFrames > PyRecursionLimit THEN {TRUE} ELSE {FALSE}
RecursionMsgs == {"maximum recursion depth exceeded", "maximum recursion depth exceeded in comparison",
                 "maximum recursion depth exceeded while calling a Python object"}
NoExit == [base |-> "", cwd |-> "", mode |-> "none"]
NoCat == [pc |-> "none", file |-> "", perms |-> FALSE, ignore |-> FALSE]
CatFiles == {"/dirA/sub.txt", "/file.txt", "/nofile"}

----------------------------------------------------------------------------
\* Server replies

\* a valid request may still fail (permission or transient error)
Outcomes(natural) == IF natural = "ok"
                     THEN {"ok"} \cup (IF faults < MaxFaults THEN {"perm", "temp"} ELSE {})
                     ELSE {natural}
FaultCost(natural, o) == IF natural = "ok" /\ o \in {"perm", "temp"} THEN 1 ELSE 0
ExcName(o) == IF o = "perm" THEN "error_perm" ELSE "error_temp"
ErrText(o) == IF o = "perm" THEN "550 Permission denied" ELSE "451 Requested action aborted"
\* a raised exception: its class and str(e)
Exc(cls, msg) == [cls |-> cls, msg |-> msg]
NoExc == Exc("none", "")
FtpExc(o) == Exc(ExcName(o), ErrText(o))

\* a call made by the innermost download_files frame may overflow the
\* interpreter stack once the frames it opens can reach past the limit
\* (where exactly depends on the build): "overflow" raises before the
\* request takes effect, "overflowSent" after the server or the local
\* filesystem has acted on it, while the reply is read
Deep == gstack /= <<>> /\ Len(gstack) + OuterFrames + InnerDepthMax > PyRecursionLimit
StackOutcomes == IF Deep THEN {"overflow", "overflowSent"} ELSE {}
Overflow == \E msg \in RecursionMsgs : exc' = Exc("RecursionError", msg)
\* the exception a failed call o raises
Raise(o) == IF o \in {"perm", "temp"} THEN exc' = FtpExc(o) ELSE Overflow
NumStr(n) == IF n < 10 THEN SubSeq("0123456789", n + 1, n + 1) ELSE "1" \o SubSeq("0123456789", n - 9, n - 9)

----------------------------------------------------------------------------
\* ftp_tree

TTop == tstack[Len(tstack)]
SetTTop(r) == tstack' = [tstack EXCEPT ![Len(tstack)] = r]
TreeFrame(dir, indent, depth) ==
  [pc |-> "start", dir |-> dir, indent |-> indent, depth |-> depth, items |-> <<>>, idx |-> 1]
\* ftp_tree returns; after the outermost call main goes on to ftp.quit()
TreeReturn == /\ tstack' = SubSeq(tstack, 1, Len(tstack) - 1)
              /\ mainPc' = IF Len(tstack) = 1 THEN "quit" ELSE mainPc

Skipped(perms, name, o) ==
  \/ ~o.hidden /\ StartsWith(name, ".")
  \/ o.onlyDirs /\ Char(perms, 1) /= "d"
  \/ o.ww /\ Char(perms, Len(perms) - 1) /= "w"
ShortName(name) == LET c == SplitSlash(name) IN c[Len(c)]
GlyphBug(index, last) == IF index = last THEN Tee ELSE Corner
Glyph(index, last) == IF index = last THEN Corner ELSE Tee
ChildIndentBug(indent, index, last) == indent \o (IF index = last THEN Bar ELSE "    ")
ChildIndent(indent, index, last) == indent \o (IF index = last THEN "    " ELSE Bar)
Descends(short, perms, o, depth) ==
  /\ ~Contains(short, ".") /\ Char(perms, 1) = "d" /\ ~o.ww
  /\ (depth.none \/ depth.n > 1)
ChildDir(directory, short) == IF directory /= "/" THEN directory \o "/" \o short ELSE "/" \o short
ChildDepthBug(d) == d
ChildDepth(d) == IF d.none THEN d ELSE IntDepth(d.n - 1)

TreeStart ==
  /\ exc.cls = "none" /\ tstack /= <<>> /\ TTop.pc = "start"
  /\ IF ~TTop.depth.none /\ TTop.depth.n < 1
     THEN TreeReturn
     ELSE SetTTop([TTop EXCEPT !.pc = "cwd"]) /\ UNCHANGED mainPc
  /\ UNCHANGED <<fs, lopt, gpat, cat, cwd, gstack, exc, out, faults, exited, ops,
                 localDirs, localFiles, retrieved>>

\* the except clauses of ftp_tree
TreeFail(o) ==
  /\ out' = out \o (IF lopt.ignore THEN <<>>
                    ELSE IF o = "perm"
                    THEN <<TTop.indent \o Corner \o "Access denied for listing directory: " \o TTop.dir>>
                    ELSE <<TTop.indent \o Corner \o "Error accessing directory: " \o TTop.dir,
                           TTop.indent \o Corner \o ErrText(o)>>)
  /\ TreeReturn

TreeCwd ==
  /\ exc.cls = "none" /\ tstack /= <<>> /\ TTop.pc = "cwd"
  /\ LET r == ResolveDir(fs, cwd, TTop.dir)
         natural == IF r.ok THEN "ok" ELSE "perm"
     IN \E o \in Outcomes(natural) :
          /\ faults' = faults + FaultCost(natural, o)
          /\ ops' = ops \cup {[op |-> "cwd", depth |-> TTop.depth, lvl |-> Len(tstack) - 1,
                               path |-> IF o = "ok" THEN r.path ELSE cwd]}
          /\ IF o = "ok"
             THEN /\ cwd' = r.path
                  /\ SetTTop([TTop EXCEPT !.pc = "list"])
                  /\ UNCHANGED <<out, mainPc>>
             ELSE TreeFail(o) /\ UNCHANGED cwd
  /\ UNCHANGED <<fs, lopt, gpat, cat, gstack, exc, exited, localDirs, localFiles, retrieved>>

\* retrlines(LIST), then items split and sorted by their last field
TreeList ==
  /\ exc.cls = "none" /\ tstack /= <<>> /\ TTop.pc = "list"
  /\ \E o \in Outcomes("ok") :
       /\ faults' = faults + FaultCost("ok", o)
       /\ ops' = ops \cup {[op |-> "list", depth |-> TTop.depth, lvl |-> Len(tstack) - 1, path |-> cwd]}
       /\ IF o = "ok"
          THEN LET lines == Listing(fs, cwd, lopt.hidden) IN
               IF \E i \in 1..Len(lines) : lines[i] = <<>>
               THEN exc' = Exc("IndexError", "list index out of range") /\ UNCHANGED <<tstack, out, mainPc>>
               ELSE /\ SetTTop([TTop EXCEPT !.pc = "loop", !.items = SortByLast(lines), !.idx = 1])
                    /\ UNCHANGED <<exc, out, mainPc>>
          ELSE TreeFail(o) /\ UNCHANGED exc
  /\ UNCHANGED <<fs, lopt, gpat, cat, cwd, gstack, exited, localDirs, localFiles, retrieved>>

\* one iteration of the for loop over the sorted items
TreeLoop ==
  /\ exc.cls = "none" /\ tstack /= <<>> /\ TTop.pc = "loop"
  /\ LET f == TTop IN
     IF f.idx > Len(f.items)
     THEN TreeReturn /\ UNCHANGED <<exc, out>>
     ELSE LET item == f.items[f.idx] IN
       IF Len(item) < 9
       THEN exc' = Exc("ValueError", "not enough values to unpack (expected 9, got " \o NumStr(Len(item)) \o ")") /\ UNCHANGED <<tstack, out, mainPc>>
       ELSE LET perms == item[1]
                name == item[9]
                short == ShortName(name)
                last == Len(f.items)
                line == Glyph(f.idx, last) \o short
                next == [f EXCEPT !.idx = f.idx + 1]
            IN IF Skipped(perms, name, lopt)
               THEN SetTTop(next) /\ UNCHANGED <<exc, out, mainPc>>
               ELSE /\ out' = Append(out, f.indent \o (IF lopt.perms THEN perms \o " " \o line ELSE line))
                    /\ IF Descends(short, perms, lopt, f.depth)
                       THEN tstack' = Append([tstack EXCEPT ![Len(tstack)] = next],
                                        TreeFrame(ChildDir(f.dir, short),
                                                  ChildIndent(f.indent, f.idx, last),
                                                  ChildDepth(f.depth)))
                       ELSE SetTTop(next)
                    /\ UNCHANGED <<exc, mainPc>>
  /\ UNCHANGED <<fs, lopt, gpat, cat, cwd, gstack, faults, exited, ops, localDirs, localFiles, retrieved>>

----------------------------------------------------------------------------
\* Exceptions: no frame of ftp_tree or download_files catches what
\* reaches it from a callee; main catches everything

Unwind ==
  /\ exc.cls /= "none" /\ (tstack /= <<>> \/ gstack /= <<>>)
  /\ IF gstack /= <<>>
     THEN /\ exited' = [base |-> gstack[Len(gstack)].base, cwd |-> PwdStr(cwd), mode |-> "raise"]
          /\ gstack' = SubSeq(gstack, 1, Len(gstack) - 1)
          /\ UNCHANGED tstack
     ELSE /\ tstack' = SubSeq(tstack, 1, Len(tstack) - 1)
          /\ UNCHANGED <<gstack, exited>>
  /\ UNCHANGED <<fs, lopt, gpat, cat, cwd, exc, out, faults, mainPc, ops, localDirs, localFiles, retrieved>>

\* ftp.quit() after the command; a failed QUIT reply raises into main's except
MainQuit ==
  /\ mainPc = "quit" /\ exc.cls = "none"
  /\ \E o \in Outcomes("ok") :
       /\ faults' = faults + FaultCost("ok", o)
       /\ IF o = "ok" THEN mainPc' = "done" /\ UNCHANGED exc
          ELSE exc' = FtpExc(o) /\ UNCHANGED mainPc
  /\ UNCHANGED <<fs, lopt, gpat, cat, cwd, tstack, gstack, out, exited, ops, localDirs, localFiles, retrieved>>

MainCatch ==
  /\ exc.cls /= "none" /\ tstack = <<>> /\ gstack = <<>>
  /\ out' = Append(out, "Failed to connect or login to FTP server: " \o exc.msg)
  /\ exc' = NoExc
  /\ mainPc' = "done"
  /\ UNCHANGED <<fs, lopt, gpat, cat, cwd, tstack, gstack, faults, exited, ops, localDirs, localFiles, retrieved>>

----------------------------------------------------------------------------
\* main, list command: ftp_tree(ftp, args.directory, recursion_depth=args.recursion, ...)

InitList ==
  /\ fs \in ListServers
  /\ lopt \in [dir : ListDirs, depth : ListDepths, perms : BOOLEAN, hidden : BOOLEAN,
               ignore : BOOLEAN, onlyDirs : BOOLEAN, ww : BOOLEAN]
  /\ gpat = ""
  /\ cat = NoCat
  /\ cwd = <<>>
  /\ tstack = <<TreeFrame(lopt.dir, "", lopt.depth)>>
  /\ gstack = <<>>
  /\ exc = NoExc
  /\ out = <<Connected, "Directory listing:">>
  /\ faults = 0
  /\ mainPc = "run"
  /\ exited = NoExit
  /\ ops = {}
  /\ localDirs = {<<>>, <<"home">>}
  /\ localFiles = [p \in {} |-> ""]
  /\ retrieved = {}

NextList == TreeStart \/ TreeCwd \/ TreeList \/ TreeLoop \/ Unwind \/ MainQuit \/ MainCatch

SpecList == InitList /\ [][NextList]_vars


----------------------------------------------------------------------------
\* Local filesystem (os.makedirs, open(..., 'wb'))

IsLocalFile(q) == q \in DOMAIN localFiles

\* kernel path walk over local directories dirs from cur: every component
\* but the last must be an existing directory ("x/.." needs x); the result
\* is "dir", "file" or "none" for the last component, or "ENOENT"/"ENOTDIR"
RECURSIVE KWalk(_, _, _)
KWalk(dirs, cur, comps) ==
  IF comps = <<>> THEN [k |-> "dir", path |-> cur]
  ELSE LET c == Head(comps)
           rest == Tail(comps)
           q == cur \o <<c>>
       IN IF c = "" \/ c = "." THEN KWalk(dirs, cur, rest)
          ELSE IF c = ".." THEN KWalk(dirs, Parent(cur), rest)
          ELSE IF q \in dirs THEN KWalk(dirs, q, rest)
          ELSE IF IsLocalFile(q) THEN [k |-> IF rest = <<>> THEN "file" ELSE "ENOTDIR", path |-> q]
          ELSE [k |-> IF rest = <<>> THEN "none" ELSE "ENOENT", path |-> q]

LocalKind(dirs, p) == KWalk(dirs, <<>>, SplitSlash(p)).k

RECURSIVE DropTrailingEmpty(_)
DropTrailingEmpty(c) == IF c /= <<>> /\ c[Len(c)] = "" THEN DropTrailingEmpty(SubSeq(c, 1, Len(c) - 1)) ELSE c

\* OSError of errno code for path p, as Python words it
OsErr(code, p) ==
  CASE code = "ENOENT" -> Exc("FileNotFoundError", "[Errno 2] No such file or directory: '" \o p \o "'")
    [] code = "ENOTDIR" -> Exc("NotADirectoryError", "[Errno 20] Not a directory: '" \o p \o "'")
    [] code = "EISDIR" -> Exc("IsADirectoryError", "[Errno 21] Is a directory: '" \o p \o "'")
    [] code = "EEXIST" -> Exc("FileExistsError", "[Errno 17] File exists: '" \o p \o "'")

\* os.mkdir(p) on directories dirs: [dirs, err] with err "" or an errno code
Mkdir(dirs, p) ==
  LET comps == DropTrailingEmpty(SplitSlash(p))
      last == comps[Len(comps)]
      w == KWalk(dirs, <<>>, SubSeq(comps, 1, Len(comps) - 1))
  IN IF Len(comps) <= 1 THEN [dirs |-> dirs, err |-> "EEXIST", name |-> p]
     ELSE IF w.k = "file" THEN [dirs |-> dirs, err |-> "ENOTDIR", name |-> p]
     ELSE IF w.k \in {"none", "ENOENT"} THEN [dirs |-> dirs, err |-> "ENOENT", name |-> p]
     ELSE IF w.k = "ENOTDIR" THEN [dirs |-> dirs, err |-> "ENOTDIR", name |-> p]
     ELSE IF last \in {".", ".."} \/ w.path \o <<last>> \in dirs \/ IsLocalFile(w.path \o <<last>>)
          THEN [dirs |-> dirs, err |-> "EEXIST", name |-> p]
     ELSE [dirs |-> dirs \cup {w.path \o <<last>>}, err |-> "", name |-> p]

\* posixpath.split
PSplit(p) == LET i == LastIdx(p, "/")
                 head == SubSeq(p, 1, i)
             IN [head |-> IF head /= "" /\ ~AllSlashes(head) THEN RStripSlash(head) ELSE head,
                 tail |-> SubSeq(p, i + 1, Len(p))]

\* os.makedirs(name, exist_ok=True) on directories dirs: [dirs, err, name]
RECURSIVE MakedirsRec(_, _)
MakedirsRec(name, dirs) ==
  LET s1 == PSplit(name)
      sp == IF s1.tail = "" THEN PSplit(s1.head) ELSE s1
      needHead == sp.head /= "" /\ sp.tail /= "" /\ LocalKind(dirs, sp.head) \notin {"dir", "file"}
      r1 == IF needHead THEN MakedirsRec(sp.head, dirs) ELSE [dirs |-> dirs, err |-> "", name |-> name]
      d1 == r1.dirs
      m == Mkdir(d1, name)
  IN IF needHead /\ r1.err \notin {"", "EEXIST"} THEN r1
     ELSE IF needHead /\ sp.tail = "." THEN [dirs |-> d1, err |-> "", name |-> name]
     ELSE IF m.err = "" THEN m
     ELSE IF LocalKind(d1, name) = "dir" THEN [dirs |-> d1, err |-> "", name |-> name]
     ELSE m

\* open(p, 'wb'): [err, key] with key the components of the file written
OpenWb(p) ==
  LET all == SplitSlash(p)
      comps == DropTrailingEmpty(all)
      trailing == Len(comps) < Len(all)
      last == comps[Len(comps)]
      w == KWalk(localDirs, <<>>, SubSeq(comps, 1, Len(comps) - 1))
  IN IF comps = <<>> THEN [err |-> "EISDIR", key |-> <<>>]
     ELSE IF w.k = "file" \/ w.k = "ENOTDIR" THEN [err |-> "ENOTDIR", key |-> <<>>]
     ELSE IF w.k \in {"none", "ENOENT"} THEN [err |-> "ENOENT", key |-> <<>>]
     ELSE IF trailing \/ last \in {"", ".", ".."} \/ w.path \o <<last>> \in localDirs
          THEN [err |-> "EISDIR", key |-> <<>>]
     ELSE [err |-> "", key |-> w.path \o <<last>>]

WriteFile(key, c) == [q \in DOMAIN localFiles \cup {key} |-> IF q = key THEN c ELSE localFiles[q]]

----------------------------------------------------------------------------
\* download_files

GTop == gstack[Len(gstack)]
SetGTop(r) == gstack' = [gstack EXCEPT ![Len(gstack)] = r]
\* a download_files frame: its locals, where it is, and (seen) the situation
\* it listed in: remote directory, wildcard, items and the local files
GetFrame(pattern) ==
  [pc |-> "enter", pattern |-> pattern, base |-> "", wc |-> "", dirp |-> "", items |-> <<>>,
   idx |-> 1, itype |-> "", lpath |-> "", lkey |-> <<>>, here |-> <<>>, hasHere |-> FALSE,
   seen |-> [dir |-> <<>>, wc |-> "", items |-> <<>>, dirs |-> {}, files |-> [p \in {} |-> ""]]]
\* download_files returns with the remote directory newCwd
GetReturn(newCwd) ==
  /\ exited' = [base |-> GTop.base, cwd |-> PwdStr(newCwd), mode |-> "return"]
  /\ gstack' = SubSeq(gstack, 1, Len(gstack) - 1)
  /\ mainPc' = IF Len(gstack) = 1 THEN "quit" ELSE mainPc
DirMatches(item, wc) == wc = "*" \/ item = wc
FileMatches(item, wc) == wc = "*" \/ GlobMatch(wc, item)
LocalPath(dirp, item) == IF dirp /= "" THEN Join3(LocalCwd, dirp, item) ELSE Join2(LocalCwd, item)

GetUnch == UNCHANGED <<fs, lopt, gpat, cat, tstack, ops>>

\* base_directory = ftp.pwd(); wildcard, directory from the pattern
GetEnter ==
  /\ exc.cls = "none" /\ gstack /= <<>> /\ GTop.pc = "enter"
  /\ LET f == GTop
         dirp == Dirname(f.pattern)
     IN \E o \in Outcomes("ok") \cup StackOutcomes :
          /\ faults' = faults + FaultCost("ok", o)
          /\ IF o = "ok"
             THEN /\ SetGTop([f EXCEPT !.base = PwdStr(cwd), !.wc = Basename(f.pattern), !.dirp = dirp,
                                      !.pc = IF dirp /= "" THEN "cd" ELSE "list",
                                      !.here = cwd, !.hasHere = (dirp = "")])
                  /\ UNCHANGED exc
             ELSE Raise(o) /\ UNCHANGED gstack
  /\ GetUnch
  /\ UNCHANGED <<cwd, out, mainPc, exited, localDirs, localFiles, retrieved>>

\* ftp.cwd(directory) and its except clauses
GetCd ==
  /\ exc.cls = "none" /\ gstack /= <<>> /\ GTop.pc = "cd"
  /\ LET f == GTop
         r == ResolveDir(fs, cwd, f.dirp)
         natural == IF r.ok THEN "ok" ELSE "perm"
     IN \E o \in Outcomes(natural) \cup StackOutcomes :
          /\ faults' = faults + FaultCost(natural, o)
          /\ IF o = "ok"
             THEN /\ cwd' = r.path
                  /\ SetGTop([f EXCEPT !.pc = "list", !.here = r.path, !.hasHere = TRUE])
                  /\ UNCHANGED out
             ELSE IF o \in {"perm", "temp"}
             THEN /\ out' = Append(out, IF o = "perm" THEN "Permission denied for directory: " \o f.dirp
                                        ELSE "Error accessing directory " \o f.dirp \o ": " \o ErrText(o))
                  /\ SetGTop([f EXCEPT !.pc = "restore"])
                  /\ UNCHANGED cwd
             ELSE \* RecursionError, caught by except Exception
                  /\ \E msg \in RecursionMsgs :
                       out' = Append(out, "Error accessing directory " \o f.dirp \o ": " \o msg)
                  /\ SetGTop([f EXCEPT !.pc = "restore"])
                  /\ cwd' = IF o = "overflowSent" /\ r.ok THEN r.path ELSE cwd
  /\ GetUnch
  /\ UNCHANGED <<exc, mainPc, exited, localDirs, localFiles, retrieved>>

\* ftp.cwd(base_directory); return [] (inside the except clauses) and the
\* final ftp.cwd(base_directory) after the loop
BackToBase ==
  /\ LET r == ResolveDir(fs, cwd, GTop.base) IN
     \E o \in Outcomes("ok") \cup StackOutcomes :
       /\ faults' = faults + FaultCost("ok", o)
       /\ IF o = "ok"
          THEN cwd' = r.path /\ GetReturn(r.path) /\ UNCHANGED exc
          ELSE /\ Raise(o)
               /\ cwd' = IF o = "overflowSent" THEN r.path ELSE cwd
               /\ UNCHANGED <<gstack, exited, mainPc>>
  /\ GetUnch
  /\ UNCHANGED <<out, localDirs, localFiles, retrieved>>

GetRestore == exc.cls = "none" /\ gstack /= <<>> /\ GTop.pc = "restore" /\ BackToBase

GetReset == exc.cls = "none" /\ gstack /= <<>> /\ GTop.pc = "reset" /\ BackToBase

\* ftp.retrlines('LIST -a', lambda line: items.append(line.split()[-1]))
GetList ==
  /\ exc.cls = "none" /\ gstack /= <<>> /\ GTop.pc = "list"
  /\ \E o \in Outcomes("ok") \cup StackOutcomes :
       /\ faults' = faults + FaultCost("ok", o)
       /\ IF o = "ok"
          THEN LET lines == Listing(fs, cwd, TRUE) IN
               IF \E i \in 1..Len(lines) : lines[i] = <<>>
               THEN exc' = Exc("IndexError", "list index out of range") /\ UNCHANGED gstack
               ELSE LET items == [i \in 1..Len(lines) |-> LastField(lines[i])] IN
                    /\ SetGTop([GTop EXCEPT !.pc = "loop", !.idx = 1, !.items = items,
                                 !.seen = [dir |-> cwd, wc |-> GTop.wc, items |-> items,
                                           dirs |-> localDirs, files |-> localFiles]])
                    /\ UNCHANGED exc
          ELSE Raise(o) /\ UNCHANGED gstack
  /\ GetUnch
  /\ UNCHANGED <<cwd, out, mainPc, exited, localDirs, localFiles, retrieved>>

GetLoop ==
  /\ exc.cls = "none" /\ gstack /= <<>> /\ GTop.pc = "loop"
  /\ LET f == GTop IN
     SetGTop(IF f.idx > Len(f.items) THEN [f EXCEPT !.pc = "reset"]
             ELSE IF f.items[f.idx] \in {".", ".."} THEN [f EXCEPT !.idx = f.idx + 1]
             ELSE [f EXCEPT !.pc = "probe1"])
  /\ GetUnch
  /\ UNCHANGED <<cwd, exc, out, faults, mainPc, exited, localDirs, localFiles, retrieved>>

\* ftp.cwd(item); error_perm means 'file', any other exception escapes
GetProbe1 ==
  /\ exc.cls = "none" /\ gstack /= <<>> /\ GTop.pc = "probe1"
  /\ LET f == GTop
         r == ResolveDir(fs, cwd, f.items[f.idx])
         natural == IF r.ok THEN "ok" ELSE "perm"
     IN \E o \in Outcomes(natural) \cup StackOutcomes :
          /\ faults' = faults + FaultCost(natural, o)
          /\ CASE o = "ok" -> cwd' = r.path /\ SetGTop([f EXCEPT !.pc = "probe2"]) /\ UNCHANGED exc
               [] o = "perm" -> SetGTop([f EXCEPT !.pc = "act", !.itype = "file"]) /\ UNCHANGED <<cwd, exc>>
               [] OTHER -> /\ Raise(o)
                           /\ cwd' = IF o = "overflowSent" /\ r.ok THEN r.path ELSE cwd
                           /\ UNCHANGED gstack
  /\ GetUnch
  /\ UNCHANGED <<out, mainPc, exited, localDirs, localFiles, retrieved>>

\* ftp.cwd('..'); item_type = 'directory'
GetProbe2 ==
  /\ exc.cls = "none" /\ gstack /= <<>> /\ GTop.pc = "probe2"
  /\ LET f == GTop
         r == ResolveDir(fs, cwd, "..")
     IN \E o \in Outcomes("ok") \cup StackOutcomes :
          /\ faults' = faults + FaultCost("ok", o)
          /\ CASE o = "ok" -> cwd' = r.path /\ SetGTop([f EXCEPT !.pc = "act", !.itype = "directory"])
                              /\ UNCHANGED exc
               [] o = "perm" -> SetGTop([f EXCEPT !.pc = "act", !.itype = "file"]) /\ UNCHANGED <<cwd, exc>>
               [] OTHER -> /\ Raise(o)
                           /\ cwd' = IF o = "overflowSent" THEN r.path ELSE cwd
                           /\ UNCHANGED gstack
  /\ GetUnch
  /\ UNCHANGED <<out, mainPc, exited, localDirs, localFiles, retrieved>>

\* the if/elif on item_type: make the local directory and recurse, or open
\* the local file for writing
GetAct ==
  /\ exc.cls = "none" /\ gstack /= <<>> /\ GTop.pc = "act"
  /\ (GTop.itype = "directory" /\ DirMatches(GTop.items[GTop.idx], GTop.wc)) => Len(gstack) < MaxDepth
  /\ LET f == GTop
         item == f.items[f.idx]
         next == [f EXCEPT !.pc = "loop", !.idx = f.idx + 1]
         lp == LocalPath(f.dirp, item)
         md == MakedirsRec(Join2(LocalCwd, item), localDirs)
         op == OpenWb(lp)
     IN \E o \in {"ok"} \cup StackOutcomes :
        IF o = "overflow" THEN Overflow /\ UNCHANGED <<gstack, localDirs, localFiles>>
        ELSE IF f.itype = "directory" /\ DirMatches(item, f.wc)
        THEN IF md.err /= ""
             THEN exc' = OsErr(md.err, md.name) /\ UNCHANGED <<gstack, localDirs, localFiles>>
             ELSE /\ localDirs' = md.dirs
                  /\ \E overflow \in RecursionOutcomes(Len(gstack) + 1) :
                     IF overflow \/ o = "overflowSent"
                     THEN Overflow /\ UNCHANGED gstack
                     ELSE /\ gstack' = Append([gstack EXCEPT ![Len(gstack)] = next],
                                              GetFrame(Join3(f.dirp, item, "*")))
                          /\ UNCHANGED exc
                  /\ UNCHANGED localFiles
        ELSE IF f.itype = "file" /\ FileMatches(item, f.wc)
        THEN IF op.err = ""
             THEN /\ localFiles' = WriteFile(op.key, "")
                  /\ IF o = "overflowSent"
                     THEN Overflow /\ UNCHANGED gstack
                     ELSE SetGTop([f EXCEPT !.pc = "retr", !.lpath = lp, !.lkey = op.key]) /\ UNCHANGED exc
                  /\ UNCHANGED localDirs
             ELSE exc' = OsErr(op.err, lp) /\ UNCHANGED <<gstack, localDirs, localFiles>>
        ELSE IF o = "overflowSent" THEN Overflow /\ UNCHANGED <<gstack, localDirs, localFiles>>
        ELSE SetGTop(next) /\ UNCHANGED <<exc, localDirs, localFiles>>
  /\ GetUnch
  /\ UNCHANGED <<cwd, out, faults, mainPc, exited, retrieved>>

\* ftp.retrbinary('RETR ' + item, f.write); print(f"Downloaded {local_path}")
\* (retrbinary hands every data block to f.write before it reads the closing
\* reply, so a transfer that fails there has already written the file)
GetRetr ==
  /\ exc.cls = "none" /\ gstack /= <<>> /\ GTop.pc = "retr"
  /\ LET f == GTop
         r == ResolveFile(fs, cwd, f.items[f.idx])
         natural == IF r.ok THEN "ok" ELSE "perm"
     IN \E o \in Outcomes(natural) \cup StackOutcomes :
          /\ faults' = faults + FaultCost(natural, o)
          /\ IF o = "ok"
             THEN /\ localFiles' = WriteFile(f.lkey, Content(r.path))
                  /\ retrieved' = retrieved \cup {r.path}
                  /\ out' = Append(out, "Downloaded " \o f.lpath)
                  /\ SetGTop([f EXCEPT !.pc = "loop", !.idx = f.idx + 1])
                  /\ UNCHANGED exc
             ELSE /\ Raise(o)
                  /\ \E sent \in IF r.ok /\ o /= "overflow" THEN BOOLEAN ELSE {FALSE} :
                       localFiles' = IF sent THEN WriteFile(f.lkey, Content(r.path)) ELSE localFiles
                  /\ UNCHANGED <<retrieved, out, gstack>>
  /\ GetUnch
  /\ UNCHANGED <<cwd, mainPc, exited, localDirs>>

----------------------------------------------------------------------------
\* main, get command: download_files(ftp, args.file)

InitGet ==
  /\ fs \in GetServers
  /\ lopt = DefaultListOpts
  /\ gpat \in GetPatterns
  /\ cat = NoCat
  /\ cwd = <<>>
  /\ tstack = <<>>
  /\ gstack = <<GetFrame(gpat)>>
  /\ exc = NoExc
  /\ out = <<Connected, "Downloading files...">>
  /\ faults = 0
  /\ mainPc = "run"
  /\ exited = NoExit
  /\ ops = {}
  /\ localDirs = {<<>>, <<"home">>}
  /\ localFiles = [p \in {} |-> ""]
  /\ retrieved = {}

NextGet == GetEnter \/ GetCd \/ GetRestore \/ GetList \/ GetLoop \/ GetProbe1 \/ GetProbe2
           \/ GetAct \/ GetRetr \/ GetReset \/ Unwind \/ MainQuit \/ MainCatch

SpecGet == InitGet /\ [][NextGet]_vars


----------------------------------------------------------------------------
\* cat_file

\* reply to LIST <path> in directory d: the file's line, or a directory's listing
CatListing(x, d, path) ==
  LET f == ResolveFile(x, d, path)
      r == ResolveDir(x, d, path)
  IN IF f.ok THEN <<ListLine(Lookup(x, Parent(f.path), f.path[Len(f.path)]))>>
     ELSE IF r.ok THEN Listing(x, r.path, FALSE)
     ELSE <<>>

\* except Exception as e: print(f"Error reading file {filepath}: {e}")
CatFail(o, shown) ==
  /\ out' = out \o shown \o (IF cat.ignore THEN <<>> ELSE <<"Error reading file " \o cat.file \o ": " \o ErrText(o)>>)
  /\ cat' = [cat EXCEPT !.pc = "done"]
  /\ mainPc' = "quit"

CatUnch == UNCHANGED <<fs, lopt, gpat, tstack, gstack, exc, exited, ops, localDirs, localFiles, retrieved>>

\* ftp.cwd('/')
CatCwd ==
  /\ cat.pc = "cwd"
  /\ \E o \in Outcomes("ok") :
       /\ faults' = faults + FaultCost("ok", o)
       /\ IF o = "ok"
          THEN cwd' = <<>> /\ cat' = [cat EXCEPT !.pc = "list"] /\ UNCHANGED <<out, mainPc>>
          ELSE CatFail(o, <<>>) /\ UNCHANGED cwd
  /\ CatUnch

\* ftp.retrlines('LIST ' + filepath, items.append); print the permissions
CatList ==
  /\ cat.pc = "list"
  /\ \E o \in Outcomes("ok") :
       /\ faults' = faults + FaultCost("ok", o)
       /\ IF o = "ok"
          THEN LET items == CatListing(fs, cwd, cat.file) IN
               /\ out' = out \o (IF items /= <<>> THEN <<"Permissions: " \o items[1][1]>> ELSE <<>>)
               /\ cat' = [cat EXCEPT !.pc = "retr"]
               /\ UNCHANGED mainPc
          ELSE CatFail(o, <<>>)
  /\ UNCHANGED cwd
  /\ CatUnch

\* ftp.retrlines(f"RETR {filepath}", print)
\* (each line is printed as it arrives, before the closing reply is read)
CatRetr ==
  /\ cat.pc = "retr"
  /\ LET r == ResolveFile(fs, cwd, cat.file)
         natural == IF r.ok THEN "ok" ELSE "perm"
     IN \E o \in Outcomes(natural) :
          /\ faults' = faults + FaultCost(natural, o)
          /\ IF o = "ok"
             THEN /\ out' = Append(out, Content(r.path))
                  /\ cat' = [cat EXCEPT !.pc = "done"]
                  /\ mainPc' = "quit"
             ELSE \E sent \in IF r.ok THEN BOOLEAN ELSE {FALSE} :
                    CatFail(o, IF sent THEN <<Content(r.path)>> ELSE <<>>)
  /\ UNCHANGED cwd
  /\ CatUnch

\* main, cat command: cat_file(ftp, args.file, show_perms=args.perms, error_ignore=args.error_ignore)
InitCat ==
  /\ fs \in ListServers
  /\ lopt = DefaultListOpts
  /\ gpat = ""
  /\ \E f \in CatFiles, pm \in BOOLEAN, ig \in BOOLEAN :
       cat = [pc |-> IF pm THEN "cwd" ELSE "retr", file |-> f, perms |-> pm, ignore |-> ig]
  /\ cwd = <<>>
  /\ tstack = <<>>
  /\ gstack = <<>>
  /\ exc = NoExc
  /\ out = <<Connected, "File content:">>
  /\ faults = 0
  /\ mainPc = "run"
  /\ exited = NoExit
  /\ ops = {}
  /\ localDirs = {<<>>, <<"home">>}
  /\ localFiles = [p \in {} |-> ""]
  /\ retrieved = {}

NextCat == CatCwd \/ CatList \/ CatRetr \/ MainQuit \/ MainCatch

SpecCat == InitCat /\ [][NextCat]_vars

----------------------------------------------------------------------------
\* Properties of the list command

\* lines printed after main's two banner lines
Printed == SubSeq(out, 3, Len(out))
\* number of path components of the start directory
StartLen == IF lopt.dir = "/" THEN 0 ELSE Len(SplitSlash(lopt.dir)) - 1

\* C3: `list --recursion 0` on a directory prints the directory's immediate
\* entries and descends into none of its subdirectories.
C3_RecursionZeroListsRoot ==
  (/\ mainPc = "done" /\ fs = "A" /\ faults = 0
   /\ lopt = [DefaultListOpts EXCEPT !.depth = IntDepth(0)])
  => Printed = <<Tee \o "dirA", Corner \o "file.txt">>

\* C4: an ftp_tree call with recursion_depth 0 issues no cwd and no LIST;
\* with recursion_depth d the walk never goes deeper than d-1 levels below
\* the start directory (with d = 1 it lists exactly the start directory and
\* recurses into none of its children).
C4_DepthControl ==
  \A o \in ops :
    /\ o.depth /= IntDepth(0)
    /\ ~lopt.depth.none => o.lvl <= lopt.depth.n - 1
    /\ (~lopt.depth.none /\ o.op = "list") => Len(o.path) - StartLen <= lopt.depth.n - 1
    /\ (o.op = "list" /\ o.lvl = 0) => Len(o.path) = StartLen

C4_Witness ==
  /\ mainPc = "done" /\ lopt.depth = IntDepth(2)
  /\ \E o \in ops : o.op = "list" /\ o.lvl = 1

\* C5: listing lines with fewer than 9 fields are skipped silently; no
\* error surfaces from them and the walk goes on.
C5_MalformedLinesSkipped == exc.cls \notin {"ValueError", "IndexError"}

ScenarioA == /\ mainPc = "done" /\ fs = "A" /\ faults = 0 /\ lopt = DefaultListOpts

\* C6 (as stated): scenario A prints the two root entry lines, file.txt last
\* with the corner glyph, and then dirA's children four spaces deeper.
C6_ScenarioA_Claim ==
  ScenarioA => Printed = <<Tee \o "dirA", Corner \o "file.txt", "    " \o Corner \o "sub.txt">>

\* C6 (amended): scenario A prints dirA's line, then dirA's children
\* under the vertical-bar indent, then file.txt last with the corner glyph.
C6_ScenarioA ==
  ScenarioA => Printed = <<Tee \o "dirA", Bar \o Corner \o "sub.txt", Corner \o "file.txt">>

C6_Witness == ScenarioA

ScenarioB(x) == /\ mainPc = "done" /\ fs = x /\ faults = 0
                /\ lopt = [DefaultListOpts EXCEPT !.onlyDirs = TRUE]

\* C7 (as stated): `list --only-dir` on a directory holding one directory and
\* one file prints only the directory's line, with the corner glyph.
C7_OnlyDir_Claim ==
  /\ ScenarioB("A") => Printed = <<Corner \o "dirA">>
  /\ ScenarioB("B") => Printed = <<Corner \o "zdir">>

\* C7 (amended): it prints only the directory's line; the glyph is the corner
\* glyph only when the directory sorts last in the unfiltered listing.
C7_OnlyDir ==
  /\ ScenarioB("A") => Printed = <<Tee \o "dirA">>
  /\ ScenarioB("B") => Printed = <<Corner \o "zdir">>

C7_Witness == ScenarioB("A")

----------------------------------------------------------------------------
\* Properties of the get command

\* C1: whenever a download_files call ends (after success, or after a
\* per-entry failure of the probe, the listing or the retrieve) the remote
\* current directory is the one pwd() returned when the call began.
\* (base "" marks a call whose pwd() raised, so it never recorded a base)
C1_RestoresBase == (exited.mode /= "none" /\ exited.base /= "") => exited.cwd = exited.base

\* C2: no per-node failure of a walk (cwd, listing, probe, retrieve,
\* malformed listing) escapes the call where it happens.
C2_FailuresAbsorbed == exc.cls = "none"

\* regular files in the remote tree below directory d (symlinks not followed)
RECURSIVE FilesUnder(_, _)
FilesUnder(x, d) ==
  UNION {IF Kind(Entries(x, d)[i]) = "-" THEN {d \o <<Entries(x, d)[i].name>>}
         ELSE IF Kind(Entries(x, d)[i]) = "d" THEN FilesUnder(x, d \o <<Entries(x, d)[i].name>>)
         ELSE {} : i \in 1..Len(Entries(x, d))}

Downloaded(key, rp) == key \in DOMAIN localFiles /\ localFiles[key] = Content(rp)

ScenarioD == mainPc = "done" /\ fs = "D" /\ gpat = "/pub/*" /\ faults = 0

\* C8: `get -f /pub/*` creates local docs, writes local readme.txt with the
\* remote bytes and downloads docs's contents under local docs/, all inside
\* the local working directory.
C8_LocalMirror ==
  ScenarioD =>
    /\ <<"home", "docs">> \in localDirs
    /\ Downloaded(<<"home", "readme.txt">>, <<"pub", "readme.txt">>)
    /\ Downloaded(<<"home", "docs", "a.txt">>, <<"pub", "docs", "a.txt">>)

\* C9: with wildcard * every file of the tree below the target directory is
\* retrieved; with a glob only the matching files of the target directory.
C9_Selection ==
  (mainPc = "done" /\ fs = "D" /\ faults = 0) =>
    /\ gpat = "*" => retrieved = FilesUnder("D", <<>>)
    /\ gpat = "/pub/*" => retrieved = FilesUnder("D", <<"pub">>)
    /\ gpat = "pub/report*.txt" => retrieved = {<<"pub", "report1.txt">>}

\* C10: on every finite remote tree, symlinks to directories included,
\* download_files returns and its recursion never revisits a directory
\* indefinitely. A nested call that lists in exactly the situation an
\* enclosing call listed in (same remote directory, wildcard and items, same
\* local directories and files) goes on as that call did, making the same
\* nested call again, and so on without end: no such repeat may happen.
Listed(f) == f.pc \notin {"enter", "cd", "list"}
C10_NoRepeatedCall ==
  \A i, j \in 1..Len(gstack) :
    (i < j /\ Listed(gstack[i]) /\ Listed(gstack[j])) => gstack[i].seen /= gstack[j].seen

====
